---- MODULE Spec2Model ----
(***************************************************************************)
(* A model of the Elsevier journal scraper: the JournalScraper class       *)
(* (key rotation, fetchWithRetry, the page extraction, scrapeJournalData,  *)
(* saveJournalData, processJournal).  Spec drives it by a caller that      *)
(* invokes processJournal for one shop URL after another; CrawlSpec drives *)
(* it by fetchAllPages, the crawl over the catalog pages.                  *)
(*                                                                         *)
(* Text is a sequence of one-character strings, so that trim, includes,    *)
(* replace, join and parseFloat are computed, not assumed.  A JavaScript   *)
(* value is a pair <<type, payload>>.                                      *)
(***************************************************************************)
EXTENDS Integers, Sequences, FiniteSets, TLC

\* ------------------------------------------------------------------ bounds
\* Largest number of keys SCRAPERAPI_KEYS holds in the model (1..MaxKeys).
MaxKeys == 2
\* Number of processJournal calls the caller issues.
MaxCalls == 2
\* Number of catalog pages the crawl requests (the source runs 105..211).
MaxPages == 2
\* Largest number of failed proxy answers in one crawl run.
MaxFaults == 3

\* --------------------------------------------------------- program constants
\* fetchWithRetry(url, options = {}, retries = 3)
Retries == 3
\* setTimeout(resolve, 1000 * Math.pow(2, i))
BaseDelay == 1000
\* the crawl: const maxRetries = 1; initialDelay = 1000; backoffFactor = 2
maxRetries == 1
initialDelay == 1000
backoffFactor == 2
\* the crawl: for (let page = 105; ...)
FirstPage == 105

\* -------------------------------------------------------------- JS values
Null == <<"null", <<>>>>
Undefined == <<"undefined", <<>>>>
NaN == <<"number", <<"N", "a", "N">>>>
Str(t) == <<"string", t>>
Num(t) == <<"number", t>>
\* A DOM lookup that found no element (querySelector's null, find's undefined).
NoEl == <<"noel", <<>>>>
\* The marker of a TypeError raised while a page is being parsed.
Threw == <<"throw", <<>>>>

\* ------------------------------------------------------------------- text
IsSpace(c) == c \in {" ", "\t", "\n"}
IsDigit(c) == c \in {"0", "1", "2", "3", "4", "5", "6", "7", "8", "9"}

RECURSIVE TrimStart(_)
TrimStart(t) ==
    IF t # <<>> /\ IsSpace(Head(t)) THEN TrimStart(Tail(t)) ELSE t

RECURSIVE TrimEnd(_)
TrimEnd(t) ==
    IF t # <<>> /\ IsSpace(t[Len(t)]) THEN TrimEnd(SubSeq(t, 1, Len(t) - 1)) ELSE t

\* String.prototype.trim
Trim(t) == TrimEnd(TrimStart(t))

\* String.prototype.includes
Includes(t, label) ==
    \E k \in 0..(Len(t) - Len(label)) : SubSeq(t, k + 1, k + Len(label)) = label

\* String.prototype.replace(c, ''): the first occurrence only
RECURSIVE ReplaceFirst(_, _)
ReplaceFirst(t, c) ==
    IF t = <<>> THEN <<>>
    ELSE IF Head(t) = c THEN Tail(t)
    ELSE <<Head(t)>> \o ReplaceFirst(Tail(t), c)

RECURSIVE Digits(_)
Digits(t) ==
    IF t # <<>> /\ IsDigit(Head(t)) THEN <<Head(t)>> \o Digits(Tail(t)) ELSE <<>>

\* the fraction digits without their trailing zeros
RECURSIVE StripTrailingZeros(_)
StripTrailingZeros(t) ==
    IF t # <<>> /\ t[Len(t)] = "0"
    THEN StripTrailingZeros(SubSeq(t, 1, Len(t) - 1)) ELSE t

\* the integer digits without their leading zeros, one digit at least
RECURSIVE StripLeadingZeros(_)
StripLeadingZeros(t) ==
    IF t = <<>> THEN <<"0">>
    ELSE IF Len(t) > 1 /\ Head(t) = "0" THEN StripLeadingZeros(Tail(t)) ELSE t

\* parseFloat of a text: leading white space skipped, an optional sign, the
\* longest decimal prefix; NaN when no digit starts it.  The number is kept
\* as its shortest decimal notation.
ParseFloatText(t) ==
    LET s == TrimStart(t)
        neg == s # <<>> /\ Head(s) = "-"
        u == IF s # <<>> /\ Head(s) \in {"-", "+"} THEN Tail(s) ELSE s
        ip == Digits(u)
        r == SubSeq(u, Len(ip) + 1, Len(u))
        fp == IF r # <<>> /\ Head(r) = "." THEN Digits(Tail(r)) ELSE <<>>
        frac == StripTrailingZeros(fp)
        mag == IF frac = <<>> THEN StripLeadingZeros(ip)
               ELSE StripLeadingZeros(ip) \o <<".">> \o frac
    IN  IF ip = <<>> /\ fp = <<>> THEN NaN
        ELSE Num((IF neg THEN <<"-">> ELSE <<>>) \o mag)

\* parseFloat(x): undefined is converted to the string "undefined" first.
parseFloat(v) == IF v[1] = "string" THEN ParseFloatText(v[2]) ELSE NaN

\* Array.prototype.join(', ')
RECURSIVE Join(_)
Join(ts) ==
    IF ts = <<>> THEN <<>>
    ELSE IF Len(ts) = 1 THEN ts[1]
    ELSE ts[1] \o <<",", " ">> \o Join(Tail(ts))

\* ------------------------------------------------- the literals of the code
\* 'CiteScore'
LblCiteScore == <<"C", "i", "t", "e", "S", "c", "o", "r", "e">>
\* 'Time to first decision'
LblFirstDecision == <<"T", "i", "m", "e", " ", "t", "o", " ", "f", "i", "r", "s", "t", " ", "d", "e", "c", "i", "s", "i", "o", "n">>
\* 'Review time'
LblReviewTime == <<"R", "e", "v", "i", "e", "w", " ", "t", "i", "m", "e">>
\* 'Submission to acceptance'
LblSubmissionToAcceptance == <<"S", "u", "b", "m", "i", "s", "s", "i", "o", "n", " ", "t", "o", " ", "a", "c", "c", "e", "p", "t", "a", "n", "c", "e">>
\* 'Acceptance to publication'
LblAcceptanceToPublication == <<"A", "c", "c", "e", "p", "t", "a", "n", "c", "e", " ", "t", "o", " ", "p", "u", "b", "l", "i", "c", "a", "t", "i", "o", "n">>
\* 'Impact Factor'
LblImpactFactor == <<"I", "m", "p", "a", "c", "t", " ", "F", "a", "c", "t", "o", "r">>
\* 'Acceptance Rate'
LblAcceptanceRate == <<"A", "c", "c", "e", "p", "t", "a", "n", "c", "e", " ", "R", "a", "t", "e">>
\* 'Subject areas'
LblSubjectAreas == <<"S", "u", "b", "j", "e", "c", "t", " ", "a", "r", "e", "a", "s">>
\* 'N/A'
TxtNA == <<"N", "/", "A">>

\* ---------------------------------------------------------------- the DOM
\* A document is what the selectors of the code can see of a page:
\*   aims   the text of the '.js-aims-and-scope' element, or NoEl
\*   issn   the text of '.col-lg-17.col-xs-24 .u-display-inline', or NoEl
\*   rows   the '.row.gutters.hor-line.u-padding-l-ver' divs: the text of the
\*          h3 and of the '.col-lg-17.col-xs-24.text-s' cell of each, or NoEl
\*   boxes  the '.metric-box' elements: the label text and the text of the
\*          '.text-xl' element of each, or NoEl
\*   price  the text of '.list-price-without-waiver .text-xl', or NoEl
\*   items  the texts of the '.abstracts-and-indexing li' elements
\* new JSDOM('') is the document with none of them.
EmptyDoc ==
    [aims |-> NoEl, issn |-> NoEl, rows |-> <<>>, boxes |-> <<>>,
     price |-> NoEl, items |-> <<>>]

\* box.textContent: the label's text followed by the value element's text
BoxText(box) == box.label \o (IF box.xl = NoEl THEN <<>> ELSE box.xl[2])

\* Array.prototype.find: the index of the first element satisfying P, 0 if none
FirstIndex(s, P(_)) ==
    IF \E k \in 1..Len(s) : P(s[k])
    THEN CHOOSE k \in 1..Len(s) : P(s[k]) /\ \A j \in 1..(k - 1) : ~P(s[j])
    ELSE 0

\* getMetricValue(label): null when no box holds the label; a TypeError when
\* the box holds no '.text-xl' element; else parseFloat of that element's text
getMetricValue(doc, label) ==
    LET k == FirstIndex(doc.boxes, LAMBDA b : Includes(BoxText(b), label))
    IN  IF k = 0 THEN Null
        ELSE IF doc.boxes[k].xl = NoEl THEN Threw
        ELSE parseFloat(doc.boxes[k].xl)

\* SubjectAreas with null, not 'N/A', when no row is found
SubjectAreasNull(doc) ==
    LET k == FirstIndex(doc.rows,
                 LAMBDA r : r.h3 # NoEl /\ Trim(r.h3[2]) = LblSubjectAreas)
    IN  IF k = 0 THEN Null
        ELSE IF doc.rows[k].cell = NoEl THEN Undefined
        ELSE Str(Trim(doc.rows[k].cell[2]))

\* the subject_areas constant of parseInsightsPage
SubjectAreas(doc) ==
    LET k == FirstIndex(doc.rows,
                 LAMBDA r : r.h3 # NoEl /\ Trim(r.h3[2]) = LblSubjectAreas)
    IN  IF k = 0 THEN Str(TxtNA)
        ELSE IF doc.rows[k].cell = NoEl THEN Undefined
        ELSE Str(Trim(doc.rows[k].cell[2]))

\* the apc field: '$' and ',' removed once each, then parseFloat
Apc(doc) ==
    parseFloat(IF doc.price = NoEl THEN Undefined
               ELSE Str(ReplaceFirst(ReplaceFirst(doc.price[2], "$"), ",")))

\* the columns the insights page contributes, in the order of the literal
InsightsFields ==
    <<"issn", "subject_areas", "cite_score", "apc", "time_to_first_decision",
      "review_time", "submission_to_acceptance", "acceptance_to_publication",
      "impact_factor", "acceptance_rate", "abstracting_indexing">>

\* parseInsightsPage(dom): the object literal it returns
InsightsObject(doc) ==
    [issn |-> IF doc.issn = NoEl THEN Undefined ELSE Str(Trim(doc.issn[2])),
     subject_areas |-> SubjectAreas(doc),
     cite_score |-> getMetricValue(doc, LblCiteScore),
     apc |-> Apc(doc),
     time_to_first_decision |-> getMetricValue(doc, LblFirstDecision),
     review_time |-> getMetricValue(doc, LblReviewTime),
     submission_to_acceptance |-> getMetricValue(doc, LblSubmissionToAcceptance),
     acceptance_to_publication |-> getMetricValue(doc, LblAcceptanceToPublication),
     impact_factor |-> getMetricValue(doc, LblImpactFactor),
     acceptance_rate |-> getMetricValue(doc, LblAcceptanceRate),
     abstracting_indexing |->
         Str(Join([k \in 1..Len(doc.items) |-> Trim(doc.items[k])]))]

\* parseInsightsPage(dom): threw is TRUE when a getMetricValue call raised
parseInsightsPage(doc) ==
    LET o == InsightsObject(doc)
    IN  [threw |-> \E k \in 1..Len(InsightsFields) : o[InsightsFields[k]] = Threw,
         fields |-> o]

\* the last two lines of getAimsAndScope, on the parsed page
AimsSection(doc) == IF doc.aims = NoEl THEN Null ELSE Str(Trim(doc.aims[2]))


\* ------------------------------------------------ the pages the proxy serves
\* The bodies a successful request can carry, per sub-page.
AimsPage == [EmptyDoc EXCEPT !.aims = Str(<<" ", "a", "b", " ">>)]
FullPage ==
    [aims |-> NoEl,
     issn |-> Str(<<" ", "1", "2", "-", "3", "X", " ">>),
     rows |-> <<[h3 |-> Str(<<"S", "u", "b", "j", "e", "c", "t", " ", "a", "r", "e", "a", "s">>), cell |-> Str(<<" ", "B", "i", "o", " ">>)]>>,
     boxes |-> <<[label |-> LblCiteScore, xl |-> Str(<<"7", ".", "5">>)],
                 [label |-> LblFirstDecision, xl |-> Str(<<"1", "2", " ", "d", "a", "y", "s">>)],
                 [label |-> LblImpactFactor, xl |-> Str(<<"4", ".", "1">>)],
                 [label |-> LblAcceptanceRate, xl |-> Str(<<"2", "5", "%">>)]>>,
     price |-> Str(<<"$", "1", ",", "2", "3", "4", ".", "5", "0">>),
     items |-> <<<<" ", "S", "c", "o", " ">>, <<"D", "O", "A", "J">>>>]
\* a metric box that holds its label and no '.text-xl' element
BrokenBoxPage ==
    [EmptyDoc EXCEPT !.boxes = <<[label |-> LblReviewTime, xl |-> NoEl]>>]

AimsBodies == {AimsPage, EmptyDoc}
InsightsBodies == {FullPage, BrokenBoxPage}

\* ------------------------------------------------------------------- URLs
\* A URL is the sequence of its '/'-separated segments.
\* /journals\/([^\/]+)/ matches at the first segment that ends with
\* "journals" and is followed by a non-empty segment, which it captures.
EndsWithJournals(seg) == seg \in {"journals", "e-journals"}

UrlMatches(url, k) ==
    /\ k + 1 <= Len(url)
    /\ EndsWithJournals(url[k])
    /\ url[k + 1] # ""

\* extractJournalTitleFromUrl(shopUrl): the captured segment, or "" for null
extractJournalTitleFromUrl(url) ==
    IF \E k \in 1..Len(url) : UrlMatches(url, k)
    THEN url[(CHOOSE k \in 1..Len(url) :
                 UrlMatches(url, k) /\ \A j \in 1..(k - 1) : ~UrlMatches(url, j)) + 1]
    ELSE ""

\* buildScienceDirectUrl(journalTitle, endpoint)
buildScienceDirectUrl(journalTitle, endpoint) ==
    <<"https:", "", "www.sciencedirect.com", "journal", journalTitle>> \o endpoint

EndpointInsights == <<"about", "insights">>
EndpointAims == <<"about", "aims-and-scope">>

\* the shop URLs the caller passes to processJournal
ShopUrls ==
    { <<"https:", "", "shop.elsevier.com", "journals", "foo", "1234">>,
      <<"https:", "", "shop.elsevier.com", "journals", "bar">>,
      <<"https:", "", "shop.elsevier.com", "books", "foo">> }

Titles == {extractJournalTitleFromUrl(u) : u \in ShopUrls} \ {""}

\* the object scrapeJournalData returns
Assemble(title, aims, insights, shop, sd) ==
    [journal_title |-> title,
     aims_and_scope |-> aims,
     issn |-> insights.issn,
     subject_areas |-> insights.subject_areas,
     cite_score |-> insights.cite_score,
     apc |-> insights.apc,
     time_to_first_decision |-> insights.time_to_first_decision,
     review_time |-> insights.review_time,
     submission_to_acceptance |-> insights.submission_to_acceptance,
     acceptance_to_publication |-> insights.acceptance_to_publication,
     impact_factor |-> insights.impact_factor,
     acceptance_rate |-> insights.acceptance_rate,
     abstracting_indexing |-> insights.abstracting_indexing,
     shop_url |-> shop,
     sciencedirect_url |-> sd]

\* no record yet
NoData ==
    Assemble("", Undefined, [f \in DOMAIN InsightsObject(EmptyDoc) |-> Undefined],
             <<>>, <<>>)

\* ------------------------------------------------------------------ state
VARIABLES
    apiKeys,             \* this.apiKeys
    currentApiKeyIndex,  \* this.currentApiKeyIndex
    db,                  \* the rows of journal_details, in insertion order
    pc,                  \* where the one thread of control stands
    calls,               \* processJournal calls issued so far
    result,              \* how the last processJournal call ended
    shopUrl,             \* scrapeJournalData: shopUrl
    journalTitle,        \* scrapeJournalData: journalTitle
    aimsAndScope,        \* scrapeJournalData: aimsAndScope
    phase,               \* which fetchWithRetry call runs: "aims" or "insights"
    fetchOk,             \* response.ok of the two fetches of this call
    data,                \* the record scrapeJournalData returned
    url,                 \* fetchWithRetry: url
    i,                   \* fetchWithRetry: the loop variable
    response,            \* what fetchWithRetry returned (or raised)
    attempts,            \* history: key, answer and delay of each attempt
    startIndex,          \* history: currentApiKeyIndex when the fetch began
    firstId              \* history: the id first returned for each title

VARIABLES
    cpc,                 \* where fetchAllPages stands ("off": it does not run)
    page,                \* fetchAllPages: page
    retries,             \* the crawl's fetchWithRetry: retries
    items,               \* data.searchResponse.items, each as its shopUrl
    item,                \* the position in items of the journal at hand
    totalJournals,       \* fetchAllPages: totalJournals
    requests,            \* history: the wait before each request of this page
    order,               \* history: the positions handled on this page, in order
    storedAtStart,       \* history: the number of rows when the run began
    faults               \* history: failed proxy answers of this run

crawlVars == <<cpc, page, retries, items, item, totalJournals, requests, order,
               storedAtStart, faults>>
scraperVars == <<apiKeys, currentApiKeyIndex, db>>
callVars == <<shopUrl, journalTitle, aimsAndScope, phase, fetchOk, data>>
fetchVars == <<url, i, response, attempts, startIndex>>
vars == <<apiKeys, currentApiKeyIndex, db, pc, calls, result, shopUrl,
          journalTitle, aimsAndScope, phase, fetchOk, data, url, i, response,
          attempts, startIndex, firstId, cpc, page, retries, items, item,
          totalJournals, requests, order, storedAtStart, faults>>

\* ---------------------------------------------------------- initial state
NoResponse == [kind |-> "none", ok |-> FALSE, text |-> EmptyDoc]
NoResult == [kind |-> "none", id |-> 0, error |-> ""]

\* process.env.SCRAPERAPI_KEYS.split(','): at least one key
KeyLists == {[k \in 1..n |-> k] : n \in 1..MaxKeys}

Init ==
    /\ apiKeys \in KeyLists
    /\ currentApiKeyIndex = 0
    /\ db = <<>>
    /\ pc = "idle"
    /\ calls = 0
    /\ result = NoResult
    /\ shopUrl = <<>>
    /\ journalTitle = ""
    /\ aimsAndScope = Null
    /\ phase = "none"
    /\ fetchOk = [aims |-> FALSE, insights |-> FALSE]
    /\ data = NoData
    /\ url = <<>>
    /\ i = 0
    /\ response = NoResponse
    /\ attempts = <<>>
    /\ startIndex = 0
    /\ firstId = [t \in Titles |-> 0]
    /\ cpc = "off"
    /\ page = 0
    /\ retries = 0
    /\ items = <<>>
    /\ item = 0
    /\ totalJournals = 0
    /\ requests = <<>>
    /\ order = <<>>
    /\ storedAtStart = 0
    /\ faults = 0

\* --------------------------------------------------------- fetchWithRetry
\* A body is given as the document JSDOM builds from it; '' builds EmptyDoc.
\* { ok: false, text: async () => '' }
Sentinel == [kind |-> "returned", ok |-> FALSE, text |-> EmptyDoc]
\* { ok: true, text: async () => response.data }
Success(body) == [kind |-> "returned", ok |-> TRUE, text |-> body]

\* getApiKey(): this.apiKeys[this.currentApiKeyIndex]; an index outside the
\* array reads undefined, written 0
getApiKey(keys, index) == IF index + 1 \in DOMAIN keys THEN keys[index + 1] ELSE 0

\* switchApiKey that keeps the index
switchApiKeyStays(index, keys) == index
\* switchApiKey without the modulo
switchApiKeyNoWrap(index, keys) == index + 1

\* switchApiKey(): the new value of this.currentApiKeyIndex
switchApiKey(index, keys) == (index + 1) % Len(keys)

\* Backoff that grows linearly
BackoffLinear(n) == BaseDelay * (n + 1)

\* 1000 * Math.pow(2, i)
Backoff(n) == BaseDelay * 2^n

\* the statuses the catch block tells apart, and one it does not
AuthStatuses == {"401", "403"}
BackoffStatuses == {"429", "500"}
OtherStatuses == {"404"}

\* history: the log with the attempt in flight answered, and the delay that
\* follows the answer
Answered(status, delay) ==
    [attempts EXCEPT ![Len(attempts)] = [@ EXCEPT !.status = status, !.delay = delay]]

\* NextIteration that throws when the loop ends instead of returning
NextIterationThrows(n, index, log) ==
    /\ i' = n
    /\ IF n < Retries
       THEN /\ attempts' = Append(log, [key |-> getApiKey(apiKeys, index),
                                         status |-> "pending", delay |-> 0])
            /\ response' = NoResponse
            /\ pc' = "inflight"
       ELSE /\ attempts' = log
            /\ response' = [kind |-> "raised", ok |-> FALSE, text |-> EmptyDoc]
            /\ pc' = "fetched"

\* The for loop from its test to its next await, with i = n, the key index
\* and the history as the iteration before left them: while i < retries,
\* getApiKey() and await axios.get(apiUrl); else the return after the loop.
NextIteration(n, index, log) ==
    /\ i' = n
    /\ IF n < Retries
       THEN /\ attempts' = Append(log, [key |-> getApiKey(apiKeys, index),
                                         status |-> "pending", delay |-> 0])
            /\ response' = NoResponse
            /\ pc' = "inflight"
       ELSE /\ attempts' = log
            /\ response' = Sentinel
            /\ pc' = "fetched"

\* entry of fetchWithRetry(u): let i = 0 and the first iteration
FetchBegin(u) ==
    /\ url' = u
    /\ startIndex' = currentApiKeyIndex
    /\ NextIteration(0, currentApiKeyIndex, <<>>)

\* axios.get resolves: return { ok: true, ... }
RespondOk ==
    /\ pc = "inflight"
    /\ \E body \in (IF phase = "aims" THEN AimsBodies ELSE InsightsBodies) :
           response' = Success(body)
    /\ attempts' = Answered("200", 0)
    /\ pc' = "fetched"
    /\ UNCHANGED <<scraperVars, callVars, calls, result, url, i, startIndex, firstId>>

\* RespondAuth that repeats the attempt with the new key (i is not advanced)
RespondAuthRepeats ==
    /\ pc = "inflight"
    /\ currentApiKeyIndex' = switchApiKey(currentApiKeyIndex, apiKeys)
    /\ \E status \in AuthStatuses :
           NextIteration(i, switchApiKey(currentApiKeyIndex, apiKeys), Answered(status, 0))
    /\ UNCHANGED <<apiKeys, db, callVars, calls, result, url, startIndex, firstId>>

\* status === 401, status === 403: switchApiKey(), then the next iteration
RespondAuth ==
    /\ pc = "inflight"
    /\ currentApiKeyIndex' = switchApiKey(currentApiKeyIndex, apiKeys)
    /\ \E status \in AuthStatuses :
           NextIteration(i + 1, switchApiKey(currentApiKeyIndex, apiKeys),
                         Answered(status, 0))
    /\ UNCHANGED <<apiKeys, db, callVars, calls, result, url, startIndex, firstId>>

\* RespondBackoff that does not wait when no attempt is left
RespondBackoffSkipsLast ==
    /\ pc = "inflight"
    /\ \E status \in BackoffStatuses :
           IF i = Retries - 1
           THEN /\ attempts' = Answered(status, 0)
                /\ response' = Sentinel
                /\ pc' = "fetched"
           ELSE /\ attempts' = Answered(status, Backoff(i))
                /\ response' = response
                /\ pc' = "sleep"
    /\ UNCHANGED <<scraperVars, callVars, calls, result, url, i, startIndex, firstId>>

\* RespondBackoff that also rotates the key
RespondBackoffRotates ==
    /\ pc = "inflight"
    /\ \E status \in BackoffStatuses : attempts' = Answered(status, Backoff(i))
    /\ currentApiKeyIndex' = switchApiKey(currentApiKeyIndex, apiKeys)
    /\ pc' = "sleep"
    /\ UNCHANGED <<apiKeys, db, callVars, calls, result, url, i, response,
                   startIndex, firstId>>

\* status === 429, status === 500: await the timer
RespondBackoff ==
    /\ pc = "inflight"
    /\ \E status \in BackoffStatuses : attempts' = Answered(status, Backoff(i))
    /\ pc' = "sleep"
    /\ UNCHANGED <<scraperVars, callVars, calls, result, url, i, response,
                   startIndex, firstId>>

\* no error.response: await the timer
NetworkError ==
    /\ pc = "inflight"
    /\ attempts' = Answered("net", Backoff(i))
    /\ pc' = "sleep"
    /\ UNCHANGED <<scraperVars, callVars, calls, result, url, i, response,
                   startIndex, firstId>>

\* RespondOther that gives up at once, whatever the attempt
RespondOtherGivesUp ==
    /\ pc = "inflight"
    /\ \E status \in OtherStatuses : attempts' = Answered(status, 0)
    /\ response' = Sentinel
    /\ pc' = "fetched"
    /\ UNCHANGED <<scraperVars, callVars, calls, result, url, i, startIndex, firstId>>

\* RespondOther that throws on the last attempt instead of returning
RespondOtherThrows ==
    /\ pc = "inflight"
    /\ \E status \in OtherStatuses :
           IF i = Retries - 1
           THEN /\ attempts' = Answered(status, 0)
                /\ response' = [kind |-> "raised", ok |-> FALSE, text |-> EmptyDoc]
                /\ pc' = "fetched"
                /\ i' = i
           ELSE NextIteration(i + 1, currentApiKeyIndex, Answered(status, 0))
    /\ UNCHANGED <<scraperVars, callVars, calls, result, url, startIndex, firstId>>

\* any other status: the sentinel on the last attempt, else the next iteration
RespondOther ==
    /\ pc = "inflight"
    /\ \E status \in OtherStatuses :
           IF i = Retries - 1
           THEN /\ attempts' = Answered(status, 0)
                /\ response' = Sentinel
                /\ pc' = "fetched"
                /\ i' = i
           ELSE NextIteration(i + 1, currentApiKeyIndex, Answered(status, 0))
    /\ UNCHANGED <<scraperVars, callVars, calls, result, url, startIndex, firstId>>

\* the timer of a backoff fires: the next iteration
TimerFires ==
    /\ pc = "sleep"
    /\ NextIteration(i + 1, currentApiKeyIndex, attempts)
    /\ UNCHANGED <<scraperVars, callVars, calls, result, url, startIndex, firstId>>

\* ------------------------------------------------------ scrapeJournalData
\* getAimsAndScope, after its fetchWithRetry call returned resp
getAimsAndScope(resp) == IF ~resp.ok THEN Null ELSE AimsSection(resp.text)

Returned(id) == [kind |-> "id", id |-> id, error |-> ""]
Raised(e) == [kind |-> "error", id |-> 0, error |-> e]

\* the locals of a fetchWithRetry call that has returned
FetchEnd ==
    /\ url' = <<>>
    /\ i' = 0
    /\ response' = NoResponse
    /\ attempts' = <<>>
    /\ startIndex' = 0

\* processJournal without the test of the extracted title
processJournalNoTitleCheck(u) ==
    /\ shopUrl' = u
    /\ journalTitle' = extractJournalTitleFromUrl(u)
    /\ aimsAndScope' = Null
    /\ fetchOk' = [aims |-> FALSE, insights |-> FALSE]
    /\ data' = NoData
    /\ result' = NoResult
    /\ phase' = "aims"
    /\ FetchBegin(buildScienceDirectUrl(extractJournalTitleFromUrl(u), EndpointAims))

\* processJournal that issues the insights fetch first
processJournalInsightsFirst(u) ==
    /\ shopUrl' = u
    /\ journalTitle' = extractJournalTitleFromUrl(u)
    /\ aimsAndScope' = Null
    /\ fetchOk' = [aims |-> FALSE, insights |-> FALSE]
    /\ data' = NoData
    /\ IF extractJournalTitleFromUrl(u) = ""
       THEN /\ result' = Raised("Could not extract journal title from URL")
            /\ phase' = "none"
            /\ pc' = "idle"
            /\ UNCHANGED fetchVars
       ELSE /\ result' = NoResult
            /\ phase' = "insights"
            /\ FetchBegin(buildScienceDirectUrl(extractJournalTitleFromUrl(u), EndpointInsights))

\* processJournal(u) up to its first await: extractJournalTitleFromUrl, the
\* throw on null, and getAimsAndScope's entry into fetchWithRetry
processJournal(u) ==
    /\ shopUrl' = u
    /\ journalTitle' = extractJournalTitleFromUrl(u)
    /\ aimsAndScope' = Null
    /\ fetchOk' = [aims |-> FALSE, insights |-> FALSE]
    /\ data' = NoData
    /\ IF extractJournalTitleFromUrl(u) = ""
       THEN /\ result' = Raised("Could not extract journal title from URL")
            /\ phase' = "none"
            /\ pc' = "idle"
            /\ UNCHANGED fetchVars
       ELSE /\ result' = NoResult
            /\ phase' = "aims"
            /\ FetchBegin(buildScienceDirectUrl(extractJournalTitleFromUrl(u), EndpointAims))

\* a caller's processJournal(u), when no call is running
Call(u) ==
    /\ pc = "idle"
    /\ calls < MaxCalls
    /\ calls' = calls + 1
    /\ processJournal(u)
    /\ UNCHANGED <<scraperVars, firstId>>

\* getAimsAndScope returns, Promise.all resolves, and the insights fetch begins
AimsDone ==
    /\ pc = "fetched"
    /\ phase = "aims"
    /\ aimsAndScope' = getAimsAndScope(response)
    /\ fetchOk' = [fetchOk EXCEPT !.aims = response.ok]
    /\ phase' = "insights"
    /\ FetchBegin(buildScienceDirectUrl(journalTitle, EndpointInsights))
    /\ UNCHANGED <<scraperVars, calls, result, shopUrl, journalTitle, data, firstId>>

\* the insights fetch returned: parseInsightsPage and the merge; a TypeError
\* of the parse leaves processJournal through its catch
InsightsDone ==
    /\ pc = "fetched"
    /\ phase = "insights"
    /\ fetchOk' = [fetchOk EXCEPT !.insights = response.ok]
    /\ LET parsed == parseInsightsPage(response.text)
       IN  IF parsed.threw
           THEN /\ result' = Raised("TypeError")
                /\ pc' = "idle"
                /\ data' = data
           ELSE /\ result' = result
                /\ pc' = "save_get"
                /\ data' = Assemble(journalTitle, aimsAndScope, parsed.fields, shopUrl,
                                    buildScienceDirectUrl(journalTitle, EndpointInsights))
    /\ FetchEnd
    /\ UNCHANGED <<scraperVars, calls, shopUrl, journalTitle, aimsAndScope,
                   phase, firstId>>

\* -------------------------------------------------------- saveJournalData
\* LookupRow with a lookup that never finds the title
LookupRowMisses(rows, title) == 0

\* SELECT id FROM journal_details WHERE journal_title = ?: the index of the
\* row db.get yields, 0 for none
LookupRow(rows, title) ==
    IF \E k \in 1..Len(rows) : rows[k].rec.journal_title = title
    THEN CHOOSE k \in 1..Len(rows) :
             /\ rows[k].rec.journal_title = title
             /\ \A j \in 1..(k - 1) : rows[j].rec.journal_title # title
    ELSE 0

\* AUTOINCREMENT: this.lastID of the INSERT
NextId(rows) == IF rows = <<>> THEN 1 ELSE rows[Len(rows)].id + 1

\* INSERT INTO journal_details (columns) VALUES (placeholders)
InsertRow(rows, rec) == Append(rows, [id |-> NextId(rows), rec |-> rec])

\* history: the id the first returning call for a title returned
FirstReturn(title, id) ==
    IF firstId[title] = 0 THEN [firstId EXCEPT ![title] = id] ELSE firstId

\* SaveGet with update-on-conflict: the incoming record replaces the row's
SaveGetOverwrites ==
    /\ pc = "save_get"
    /\ LET k == LookupRow(db, data.journal_title)
       IN  IF k # 0
           THEN /\ result' = Returned(db[k].id)
                /\ firstId' = FirstReturn(data.journal_title, db[k].id)
                /\ db' = [db EXCEPT ![k].rec = data]
                /\ pc' = "idle"
           ELSE /\ result' = result
                /\ firstId' = firstId
                /\ db' = db
                /\ pc' = "save_run"
    /\ UNCHANGED <<apiKeys, currentApiKeyIndex, callVars, fetchVars, calls>>

\* db.get calls back with a row (resolve(row.id)) or without one (INSERT next)
SaveGet ==
    /\ pc = "save_get"
    /\ LET k == LookupRow(db, data.journal_title)
       IN  IF k # 0
           THEN /\ result' = Returned(db[k].id)
                /\ firstId' = FirstReturn(data.journal_title, db[k].id)
                /\ pc' = "idle"
           ELSE /\ result' = result
                /\ firstId' = firstId
                /\ pc' = "save_run"
    /\ UNCHANGED <<scraperVars, callVars, fetchVars, calls>>

\* db.get calls back with err: reject(err)
SaveGetError ==
    /\ pc = "save_get"
    /\ result' = Raised("SQLITE_ERROR")
    /\ pc' = "idle"
    /\ UNCHANGED <<scraperVars, callVars, fetchVars, calls, firstId>>

\* db.run calls back without err: resolve(this.lastID || null)
SaveRun ==
    /\ pc = "save_run"
    /\ db' = InsertRow(db, data)
    /\ result' = Returned(NextId(db))
    /\ firstId' = FirstReturn(data.journal_title, NextId(db))
    /\ pc' = "idle"
    /\ UNCHANGED <<apiKeys, currentApiKeyIndex, callVars, fetchVars, calls>>

\* db.run calls back with err: reject(err)
SaveRunError ==
    /\ pc = "save_run"
    /\ result' = Raised("SQLITE_ERROR")
    /\ pc' = "idle"
    /\ UNCHANGED <<scraperVars, callVars, fetchVars, calls, firstId>>

\* ------------------------------------------------- fetchAllPages (crawl)
\* journal.journalLinks?.productDetailPageURL || 'N/A': an item without link
NoLink == <<"N/A">>

\* the listings response.json() can yield: data.searchResponse.items, each
\* item as its shopUrl; <<>> also stands for a body without searchResponse
Listings ==
    { <<>>,
      << <<"https:", "", "shop.elsevier.com", "books", "foo">>,
         <<"https:", "", "shop.elsevier.com", "journals", "foo", "1234">> >>,
      << <<"https:", "", "shop.elsevier.com", "journals", "foo", "1234">>,
         NoLink,
         <<"https:", "", "shop.elsevier.com", "journals", "bar">> >> }

\* for (let page = 105; page <= 211; page++), cut to MaxPages pages
LastPage == FirstPage + MaxPages - 1

\* a row an earlier run stored
StoredRow ==
    [id |-> 1,
     rec |-> Assemble("foo", Null, parseInsightsPage(FullPage).fields,
                      <<"https:", "", "shop.elsevier.com", "journals", "foo", "1234">>,
                      buildScienceDirectUrl("foo", EndpointInsights))]

\* the store when a run begins
InitialStores == {<<>>, <<StoredRow>>}

\* the state when fetchAllPages awaits the listing of its first page
CrawlInit ==
    /\ apiKeys \in KeyLists
    /\ currentApiKeyIndex = 0
    /\ db \in InitialStores
    /\ pc = "idle"
    /\ calls = 0
    /\ result = NoResult
    /\ shopUrl = <<>>
    /\ journalTitle = ""
    /\ aimsAndScope = Null
    /\ phase = "none"
    /\ fetchOk = [aims |-> FALSE, insights |-> FALSE]
    /\ data = NoData
    /\ url = <<>>
    /\ i = 0
    /\ response = NoResponse
    /\ attempts = <<>>
    /\ startIndex = 0
    /\ firstId = [t \in Titles |-> 0]
    /\ cpc = "request"
    /\ page = FirstPage
    /\ retries = 0
    /\ items = <<>>
    /\ item = 0
    /\ totalJournals = 0
    /\ requests = <<0>>
    /\ order = <<>>
    /\ storedAtStart = Len(db)
    /\ faults = 0

\* the test of the page loop with page = p: the listing request of the
\* page, or scraper.close() after the last page
PageLoop(p) ==
    /\ page' = p
    /\ retries' = 0
    /\ items' = <<>>
    /\ item' = 0
    /\ order' = <<>>
    /\ IF p <= LastPage
       THEN /\ cpc' = "request"
            /\ requests' = <<0>>
       ELSE /\ cpc' = "closing"
            /\ requests' = <<>>

\* the first position from k on of an item that has a link; Len + 1 for none
NextLinked(list, k) ==
    IF \E j \in k..Len(list) : list[j] # NoLink
    THEN CHOOSE j \in k..Len(list) :
             list[j] # NoLink /\ \A h \in k..(j - 1) : list[h] = NoLink
    ELSE Len(list) + 1

\* for (const journal of items) from position k on: items without link are
\* passed over; the title lookup of the next journal is issued (db.get), or
\* the listing is exhausted and the delay between pages begins
ItemLoop(list, k) ==
    LET j == NextLinked(list, k)
    IN  /\ item' = j
        /\ IF j <= Len(list)
           THEN /\ cpc' = "lookup"
                /\ order' = Append(order, j)
           ELSE /\ cpc' = "delay"
                /\ order' = order

\* the locals of a processJournal call that has settled
CallEnd ==
    /\ result' = NoResult
    /\ shopUrl' = <<>>
    /\ journalTitle' = ""
    /\ aimsAndScope' = Null
    /\ phase' = "none"
    /\ fetchOk' = [aims |-> FALSE, insights |-> FALSE]
    /\ data' = NoData

\* the listing request is answered with response.ok: return response, and
\* response.json() is awaited
ListingOk ==
    /\ cpc = "request"
    /\ cpc' = "json"
    /\ UNCHANGED <<page, retries, items, item, totalJournals, requests, order,
                   storedAtStart, faults>>
    /\ UNCHANGED <<scraperVars, callVars, fetchVars, pc, calls, result, firstId>>

\* ListingFails that lets the failure of a page end the run
ListingFailsAborts ==
    /\ cpc = "request"
    /\ IF retries < maxRetries
       THEN cpc' = "retry_wait"
       ELSE cpc' = "rejected"
    /\ UNCHANGED <<page, retries, items, item, totalJournals, requests, order,
                   storedAtStart, faults>>
    /\ UNCHANGED <<scraperVars, callVars, fetchVars, pc, calls, result, firstId>>

\* fetch rejects, or the response is not ok and the Error is thrown: the
\* catch awaits the retry timer while retries < maxRetries, else it rethrows
\* to the catch of the page
ListingFails ==
    /\ cpc = "request"
    /\ IF retries < maxRetries
       THEN cpc' = "retry_wait"
       ELSE cpc' = "delay"
    /\ UNCHANGED <<page, retries, items, item, totalJournals, requests, order,
                   storedAtStart, faults>>
    /\ UNCHANGED <<scraperVars, callVars, fetchVars, pc, calls, result, firstId>>

\* the retry timer fires: fetchWithRetry(url, options, retries + 1)
RetryTimer ==
    /\ cpc = "retry_wait"
    /\ retries' = retries + 1
    /\ requests' = Append(requests, initialDelay * backoffFactor^retries)
    /\ cpc' = "request"
    /\ UNCHANGED <<page, items, item, totalJournals, order, storedAtStart, faults>>
    /\ UNCHANGED <<scraperVars, callVars, fetchVars, pc, calls, result, firstId>>

\* response.json() resolves: the loop over the items begins
ListingJson ==
    /\ cpc = "json"
    /\ \E list \in Listings :
           /\ items' = list
           /\ ItemLoop(list, 1)
    /\ UNCHANGED <<page, retries, totalJournals, requests, storedAtStart, faults>>
    /\ UNCHANGED <<scraperVars, callVars, fetchVars, pc, calls, result, firstId>>

\* response.json() rejects: the catch of the page
ListingJsonError ==
    /\ cpc = "json"
    /\ cpc' = "delay"
    /\ UNCHANGED <<page, retries, items, item, totalJournals, requests, order,
                   storedAtStart, faults>>
    /\ UNCHANGED <<scraperVars, callVars, fetchVars, pc, calls, result, firstId>>

\* existingJournalId that never finds the title
existingJournalIdMisses(rows, u) == 0

\* scraper.extractJournalTitleFromUrl(shopUrl) and the SELECT by that title:
\* the id of the row, 0 for resolve(null); a null title equals no row
existingJournalId(rows, u) ==
    IF extractJournalTitleFromUrl(u) = ""
    THEN 0
    ELSE IF LookupRow(rows, extractJournalTitleFromUrl(u)) = 0
         THEN 0
         ELSE rows[LookupRow(rows, extractJournalTitleFromUrl(u))].id

\* LookupDone that starts processJournal and goes on without awaiting it
LookupDoneNoAwait ==
    /\ cpc = "lookup"
    /\ IF existingJournalId(db, items[item]) # 0
       THEN /\ ItemLoop(items, item + 1)
            /\ UNCHANGED <<callVars, fetchVars, pc, result>>
       ELSE /\ processJournal(items[item])
            /\ ItemLoop(items, item + 1)
    /\ UNCHANGED <<page, retries, items, totalJournals, requests, storedAtStart, faults>>
    /\ UNCHANGED <<scraperVars, calls, firstId>>

\* db.get calls back without err: on a row, continue with the next journal;
\* else processJournal(shopUrl) is called and awaited
LookupDone ==
    /\ cpc = "lookup"
    /\ IF existingJournalId(db, items[item]) # 0
       THEN /\ ItemLoop(items, item + 1)
            /\ UNCHANGED <<callVars, fetchVars, pc, result>>
       ELSE /\ processJournal(items[item])
            /\ cpc' = "process"
            /\ UNCHANGED <<item, order>>
    /\ UNCHANGED <<page, retries, items, totalJournals, requests, storedAtStart, faults>>
    /\ UNCHANGED <<scraperVars, calls, firstId>>

\* db.get calls back with err: reject(err), outside the try of the journal,
\* so the catch of the page takes it
LookupError ==
    /\ cpc = "lookup"
    /\ cpc' = "delay"
    /\ UNCHANGED <<page, retries, items, item, totalJournals, requests, order,
                   storedAtStart, faults>>
    /\ UNCHANGED <<scraperVars, callVars, fetchVars, pc, calls, result, firstId>>

\* processJournal resolved: totalJournals++, and the next journal
ProcessResolved ==
    /\ cpc = "process"
    /\ pc = "idle"
    /\ result.kind = "id"
    /\ totalJournals' = totalJournals + 1
    /\ ItemLoop(items, item + 1)
    /\ CallEnd
    /\ UNCHANGED <<page, retries, items, requests, storedAtStart, faults>>
    /\ UNCHANGED <<scraperVars, fetchVars, pc, calls, firstId>>

\* ProcessRejected that counts the journal all the same
ProcessRejectedCounts ==
    /\ cpc = "process"
    /\ pc = "idle"
    /\ result.kind = "error"
    /\ totalJournals' = totalJournals + 1
    /\ ItemLoop(items, item + 1)
    /\ CallEnd
    /\ UNCHANGED <<page, retries, items, requests, storedAtStart, faults>>
    /\ UNCHANGED <<scraperVars, fetchVars, pc, calls, firstId>>

\* processJournal rejected: the catch of the journal, continue
ProcessRejected ==
    /\ cpc = "process"
    /\ pc = "idle"
    /\ result.kind = "error"
    /\ ItemLoop(items, item + 1)
    /\ CallEnd
    /\ UNCHANGED <<page, retries, items, totalJournals, requests, storedAtStart, faults>>
    /\ UNCHANGED <<scraperVars, fetchVars, pc, calls, firstId>>

\* the timer between pages fires: page++ and the test of the page loop
PageDelay ==
    /\ cpc = "delay"
    /\ PageLoop(page + 1)
    /\ UNCHANGED <<totalJournals, storedAtStart, faults>>
    /\ UNCHANGED <<scraperVars, callVars, fetchVars, pc, calls, result, firstId>>

\* scraper.close() resolves: return totalJournals
CloseOk ==
    /\ cpc = "closing"
    /\ cpc' = "returned"
    /\ UNCHANGED <<page, retries, items, item, totalJournals, requests, order,
                   storedAtStart, faults>>
    /\ UNCHANGED <<scraperVars, callVars, fetchVars, pc, calls, result, firstId>>

\* scraper.close() rejects: fetchAllPages rejects
CloseError ==
    /\ cpc = "closing"
    /\ cpc' = "rejected"
    /\ UNCHANGED <<page, retries, items, item, totalJournals, requests, order,
                   storedAtStart, faults>>
    /\ UNCHANGED <<scraperVars, callVars, fetchVars, pc, calls, result, firstId>>

\* a step of the running processJournal call that leaves the crawl's own
\* variables alone
Quiet == UNCHANGED <<cpc, page, retries, items, item, totalJournals, requests,
                     order, storedAtStart, faults>>

\* a failed proxy answer, counted against the run's bound
Fault ==
    /\ faults < MaxFaults
    /\ faults' = faults + 1
    /\ UNCHANGED <<cpc, page, retries, items, item, totalJournals, requests,
                   order, storedAtStart>>

\* ---------------------------------------------------------- specification
Next ==
    \/ (\E u \in ShopUrls : Call(u)) /\ UNCHANGED crawlVars
    \/ RespondOk /\ UNCHANGED crawlVars
    \/ RespondAuth /\ UNCHANGED crawlVars
    \/ RespondBackoff /\ UNCHANGED crawlVars
    \/ NetworkError /\ UNCHANGED crawlVars
    \/ RespondOther /\ UNCHANGED crawlVars
    \/ TimerFires /\ UNCHANGED crawlVars
    \/ AimsDone /\ UNCHANGED crawlVars
    \/ InsightsDone /\ UNCHANGED crawlVars
    \/ SaveGet /\ UNCHANGED crawlVars
    \/ SaveGetError /\ UNCHANGED crawlVars
    \/ SaveRun /\ UNCHANGED crawlVars
    \/ SaveRunError /\ UNCHANGED crawlVars

Spec == Init /\ [][Next]_vars

\* fetchAllPages drives the scraper
CrawlNext ==
    \/ ListingOk
    \/ ListingFails
    \/ RetryTimer
    \/ ListingJson
    \/ ListingJsonError
    \/ LookupDone
    \/ LookupError
    \/ ProcessResolved
    \/ ProcessRejected
    \/ PageDelay
    \/ CloseOk
    \/ CloseError
    \/ RespondOk /\ Quiet
    \/ RespondAuth /\ Fault
    \/ RespondBackoff /\ Fault
    \/ NetworkError /\ Fault
    \/ RespondOther /\ Fault
    \/ TimerFires /\ Quiet
    \/ AimsDone /\ Quiet
    \/ InsightsDone /\ Quiet
    \/ SaveGet /\ Quiet
    \/ SaveGetError /\ Quiet
    \/ SaveRun /\ Quiet
    \/ SaveRunError /\ Quiet

CrawlSpec == CrawlInit /\ [][CrawlNext]_vars

\* the steps of a running fetchWithRetry call
FetchStep ==
    \/ RespondOk
    \/ RespondAuth
    \/ RespondBackoff
    \/ NetworkError
    \/ RespondOther
    \/ TimerFires

\* ------------------------------------------------- vocabulary of the claims
\* the answers of the attempts of the running fetchWithRetry call, in order
StatusesOf(log) == [k \in 1..Len(log) |-> log[k].status]
DelaysOf(log) == [k \in 1..Len(log) |-> log[k].delay]
\* the index in apiKeys of a key
IndexOfKey(key) == CHOOSE x \in 0..(Len(apiKeys) - 1) : apiKeys[x + 1] = key
\* the number of 401 and 403 answers
AuthAnswers(log) == Cardinality({k \in 1..Len(log) : log[k].status \in {"401", "403"}})
\* an attempt was answered, and every answer so far was 401 or 403
AllAuth(log) ==
    /\ log # <<>>
    /\ log[1].status # "pending"
    /\ \A k \in 1..Len(log) : log[k].status \in {"401", "403", "pending"}
\* a row of the store holds the title
TitleStored(title) == \E k \in 1..Len(db) : db[k].rec.journal_title = title
\* a fetchWithRetry call is running
Fetching == pc \in {"inflight", "sleep"}

\* ----------------------------------------------------------------- claims
\* C1: after any sequence of saveJournalData calls issued one after another,
\* the store holds at most one row per journal_title, and every call that
\* returns an id for a title returns the id the first such call returned.
C1_OneRowPerTitle ==
    /\ \A j, k \in 1..Len(db) :
           db[j].rec.journal_title = db[k].rec.journal_title => j = k
    /\ (pc = "idle" /\ result.kind = "id") => result.id = firstId[journalTitle]

\* a second call for a stored title returned, with a record that differs
\* from the stored one
C1_Witness ==
    /\ pc = "idle" /\ result.kind = "id" /\ calls = 2
    /\ Len(db) = 1
    /\ db[1].rec.journal_title = journalTitle
    /\ db[1].rec # data
    /\ result.id = db[1].id

\* C2: a saveJournalData call whose journal_title is already stored leaves
\* the whole store unchanged, whatever the incoming record holds: no row is
\* changed and none is added.
C2_StoredTitleLeavesStore ==
    [][(pc \in {"save_get", "save_run"} /\ TitleStored(data.journal_title))
           => db' = db]_vars

\* a call for a stored title returned the stored row's id while the incoming
\* record differs from the row in aims_and_scope and in cite_score
C2_Witness ==
    /\ pc = "idle" /\ result.kind = "id"
    /\ \E k \in 1..Len(db) :
           /\ db[k].rec.journal_title = data.journal_title
           /\ db[k].id = result.id
           /\ db[k].rec.aims_and_scope # data.aims_and_scope
           /\ db[k].rec.cite_score # data.cite_score

\* C3: for every sequence of attempt outcomes fetchWithRetry never raises:
\* it returns ok=true exactly when its last attempt succeeded, no attempt
\* follows a success, and otherwise it returns ok=false with an empty body.
C3_NeverRaises ==
    /\ response.kind # "raised"
    /\ \A k \in 1..(Len(attempts) - 1) : attempts[k].status # "200"
    /\ pc = "fetched" =>
           /\ response.kind = "returned"
           /\ response.ok <=> attempts[Len(attempts)].status = "200"
           /\ ~response.ok => response.text = EmptyDoc

\* all three attempts answered 404: the ok=false sentinel came back
C3_Witness ==
    /\ pc = "fetched"
    /\ StatusesOf(attempts) = <<"404", "404", "404">>
    /\ response = [kind |-> "returned", ok |-> FALSE, text |-> EmptyDoc]

\* the steps a running fetchWithRetry call can still take: two per iteration
\* left (the request, then the timer), none once it has returned
StepsLeft ==
    IF pc = "inflight" THEN 2 * (3 - i)
    ELSE IF pc = "sleep" THEN 2 * (3 - i) - 1
    ELSE 0

\* C4: every fetchWithRetry call issues at most 3 proxy requests and
\* terminates, for every sequence of attempt outcomes, 401 and 403 included:
\* a running call can always take a step, and every step it takes lowers
\* StepsLeft, which is 0 only when the call has returned.
C4_TerminatesWithinRetries ==
    /\ [](Len(attempts) <= 3)
    /\ [](Fetching => (ENABLED FetchStep /\ StepsLeft > 0))
    /\ [][Fetching => (StepsLeft' < StepsLeft /\ (Fetching' \/ pc' = "fetched"))]_vars

\* a call returned after three attempts that were all answered 401 or 403
C4_Witness ==
    /\ pc = "fetched"
    /\ Len(attempts) = 3
    /\ AllAuth(attempts)

\* C5 as stated: while every answer is 401 or 403 the fetcher goes on
\* rotating and re-attempting without bound, so such a call does not return.
C5_Original == AllAuth(attempts) => pc # "fetched"

\* C5 as amended: when every attempt is answered 401 or 403 the fetcher
\* rotates the key after each answer, issues exactly 3 attempts and then
\* returns the ok=false sentinel without raising: rotation is limited by the
\* retry count.
C5_RotationBounded ==
    AllAuth(attempts) =>
        /\ Len(attempts) <= 3
        /\ currentApiKeyIndex = (startIndex + AuthAnswers(attempts)) % Len(apiKeys)
        /\ pc = "fetched" =>
               /\ Len(attempts) = 3
               /\ response = [kind |-> "returned", ok |-> FALSE, text |-> EmptyDoc]

\* with two keys, 403, 401, 403 were answered and the call returned ok=false
C5_Witness ==
    /\ pc = "fetched"
    /\ Len(apiKeys) = 2
    /\ StatusesOf(attempts) = <<"403", "401", "403">>
    /\ ~response.ok
    /\ currentApiKeyIndex # startIndex

\* C6: when an attempt that is not the last is answered 401 or 403, the key
\* index is advanced by one and the next attempt is issued with the new key,
\* with no backoff delay in between.
C6_RotateThenRetryAtOnce ==
    \A k \in 1..Len(attempts) :
        attempts[k].status \in {"401", "403"} =>
            /\ attempts[k].delay = 0
            /\ k < Len(attempts) =>
                   attempts[k + 1].key =
                       apiKeys[((IndexOfKey(attempts[k].key) + 1) % Len(apiKeys)) + 1]
            /\ k = Len(attempts) =>
                   /\ pc # "sleep"
                   /\ currentApiKeyIndex = (IndexOfKey(attempts[k].key) + 1) % Len(apiKeys)

\* with two keys, the first attempt was answered 401 and the second attempt
\* is in flight with the other key
C6_Witness ==
    /\ pc = "inflight"
    /\ Len(apiKeys) = 2
    /\ Len(attempts) = 2
    /\ attempts[1].status = "401"
    /\ attempts[2].key # attempts[1].key

\* C7: when attempt number i (from 0) is answered 429 or 500 or fails at
\* network level, the fetcher waits exactly 1000 * 2^i ms and issues the next
\* attempt, if one is left, with the same key; 429, 429, 200 succeeds with
\* delays of 1000 ms and 2000 ms before the second and third attempts.
C7_ExponentialBackoff ==
    /\ \A k \in 1..Len(attempts) :
           attempts[k].status \in {"429", "500", "net"} =>
               /\ attempts[k].delay = 1000 * 2^(k - 1)
               /\ k < Len(attempts) => attempts[k + 1].key = attempts[k].key
               /\ k = Len(attempts) =>
                      getApiKey(apiKeys, currentApiKeyIndex) = attempts[k].key
    /\ (pc = "fetched" /\ StatusesOf(attempts) = <<"429", "429", "200">>) =>
           /\ response.ok
           /\ DelaysOf(attempts) = <<1000, 2000, 0>>

\* 429, 429, 200: the call returned ok=true
C7_Witness ==
    /\ pc = "fetched"
    /\ StatusesOf(attempts) = <<"429", "429", "200">>
    /\ response.ok

\* C8: the key index always satisfies 0 <= currentApiKeyIndex < number of
\* keys; each rotation sets it to (index + 1) mod length, and with a single
\* key a rotation leaves the active key the same.
C8_IndexInRange ==
    [][/\ currentApiKeyIndex \in 0..(Len(apiKeys) - 1)
       /\ currentApiKeyIndex' \in 0..(Len(apiKeys') - 1)
       /\ (pc = "inflight" /\ attempts'[Len(attempts)].status \in {"401", "403"}) =>
              /\ currentApiKeyIndex' = (currentApiKeyIndex + 1) % Len(apiKeys)
              /\ Len(apiKeys) = 1 =>
                     getApiKey(apiKeys', currentApiKeyIndex') =
                         getApiKey(apiKeys, currentApiKeyIndex)]_vars

\* with two keys, two rotations brought the index back to where it began
C8_Witness ==
    /\ pc = "inflight"
    /\ Len(apiKeys) = 2
    /\ StatusesOf(attempts) = <<"401", "403", "pending">>
    /\ currentApiKeyIndex = startIndex
    /\ attempts[3].key = attempts[1].key

\* C9: the key index changes only when a fetch attempt is answered 401 or
\* 403 (no other answer and no parse, assemble or store step changes it), so
\* when a fetchWithRetry call returns it equals (index at call start + number
\* of 401/403 answers in the call) mod number of keys.
C9_IndexChangesOnAuthOnly ==
    [][/\ currentApiKeyIndex' # currentApiKeyIndex =>
              (pc = "inflight" /\ attempts'[Len(attempts)].status \in {"401", "403"})
       /\ pc' = "fetched" =>
              currentApiKeyIndex' = (startIndex' + AuthAnswers(attempts')) % Len(apiKeys)]_vars

\* with two keys, 401, 500, 200: the call returned with the index one past
\* where it began
C9_Witness ==
    /\ pc = "fetched"
    /\ Len(apiKeys) = 2
    /\ StatusesOf(attempts) = <<"401", "500", "200">>
    /\ currentApiKeyIndex = (startIndex + 1) % 2
    /\ currentApiKeyIndex # startIndex

\* the fields the insights page contributes are all null
InsightsAllNull(rec) == \A k \in 1..Len(InsightsFields) : rec[InsightsFields[k]] = Null

AimsRunning == Fetching /\ phase = "aims"
\* the insights fetch of the running call has been issued
InsightsIssued == url = buildScienceDirectUrl(journalTitle, EndpointInsights)

\* C14 as stated: the two sub-page fetches are issued together, so the
\* insights fetch is already issued while the aims-and-scope fetch runs.
C14_Original == AimsRunning => InsightsIssued

\* C14 as amended: within one scrapeJournalData call the two fetches run one
\* after the other: the insights fetch is issued only in the step in which
\* the aims-and-scope fetch has returned, never while it runs, so the
\* aims-and-scope fetch always completes first.
C14_FetchesSequential ==
    [][/\ (InsightsIssued' /\ ~InsightsIssued) => (pc = "fetched" /\ phase = "aims")
       /\ AimsRunning' => ~InsightsIssued']_vars

\* the insights fetch is in flight after the aims-and-scope fetch returned
\* ok=true with an aims section
C14_Witness ==
    /\ pc = "inflight"
    /\ phase = "insights"
    /\ InsightsIssued
    /\ fetchOk.aims
    /\ aimsAndScope = Str(<<"a", "b">>)

\* C16: a status other than 401, 403, 429 and 500: on the last attempt the
\* ok=false sentinel is returned; on an earlier attempt the next attempt is
\* issued at once, with no delay and with the same key.
C16_OtherStatusFallsThrough ==
    \A k \in 1..Len(attempts) :
        attempts[k].status \in OtherStatuses =>
            /\ attempts[k].delay = 0
            /\ k = 3 =>
                   /\ pc = "fetched"
                   /\ response = [kind |-> "returned", ok |-> FALSE, text |-> EmptyDoc]
            /\ k < 3 =>
                   /\ Len(attempts) > k
                   /\ attempts[k + 1].key = attempts[k].key

\* with two keys: 401, 404 and the third attempt in flight with the key of
\* the second
C16_Witness ==
    /\ pc = "inflight"
    /\ Len(apiKeys) = 2
    /\ StatusesOf(attempts) = <<"401", "404", "pending">>
    /\ attempts[3].key = attempts[2].key
    /\ attempts[2].key # attempts[1].key

\* C17 as stated: parseInsightsPage never raises, whatever elements the page
\* holds; a metric box that matches a label and has no value element gives
\* that field null.
C17_ParseNeverRaises ==
    (pc = "fetched" /\ phase = "insights") =>
        /\ ~parseInsightsPage(response.text).threw
        /\ response.text = BrokenBoxPage =>
               parseInsightsPage(response.text).fields.review_time = Null

\* C20: when the last attempt is answered 429 or 500 or fails at network
\* level, the fetcher still waits 1000 * 2^(retries - 1) = 4000 ms and only
\* then returns the ok=false sentinel; after a last attempt answered 401,
\* 403 or another status it returns the sentinel without waiting.
C20_LastAttemptStillWaits ==
    [][/\ (pc = "inflight" /\ i = 2) =>
              /\ attempts'[3].status \in {"429", "500", "net"} =>
                     /\ pc' = "sleep"
                     /\ attempts'[3].delay = 4000
              /\ attempts'[3].status \in {"401", "403", "404"} =>
                     /\ pc' = "fetched"
                     /\ attempts'[3].delay = 0
                     /\ response' = [kind |-> "returned", ok |-> FALSE, text |-> EmptyDoc]
       /\ (pc = "sleep" /\ i = 2) =>
              /\ pc' = "fetched"
              /\ attempts' = attempts
              /\ response' = [kind |-> "returned", ok |-> FALSE, text |-> EmptyDoc]]_vars

\* the third attempt failed at network level and the call returned ok=false
\* after the 4000 ms wait
C20_Witness ==
    /\ pc = "fetched"
    /\ StatusesOf(attempts) = <<"404", "401", "net">>
    /\ attempts[3].delay = 4000
    /\ ~response.ok

\* the shop URL has no journals/<title> segment
NoTitle(u) == extractJournalTitleFromUrl(u) = ""
\* the crawl is handling a journal of the listing
AtJournal == cpc \in {"lookup", "process"}
\* where the item loop stands after the journal at hand
AfterJournal(c, k) ==
    /\ k = NextLinked(items, item + 1)
    /\ c = IF NextLinked(items, item + 1) <= Len(items) THEN "lookup" ELSE "delay"

C12_ErrorSkipsOneJournal ==
    cpc = "delay" => NextLinked(items, item + 1) > Len(items)

\* the set of the positions handled on this page
Handled == {order[k] : k \in 1..Len(order)}

\* C13: journals are handled one at a time in listing order: a journal is
\* taken up only when no processJournal call is running, the journals taken
\* up are those of the listing in its order with none passed over, every step
\* of a processJournal call belongs to the journal at hand, and the page
\* advances by one only between journals.
C13_OneAtATimeInOrder ==
    /\ [](/\ \A k \in 1..Len(order) :
                 /\ order[k] \in 1..Len(items)
                 /\ items[order[k]] # NoLink
                 /\ k > 1 => order[k - 1] < order[k]
          /\ \A j \in 1..Len(items) :
                 (j <= item /\ items[j] # NoLink) => j \in Handled
          /\ AtJournal => (order # <<>> /\ item = order[Len(order)])
          /\ pc # "idle" => (cpc = "process" /\ shopUrl = items[item]))
    /\ [][/\ page' \in {page, page + 1}
          /\ page' = page + 1 => (cpc = "delay" /\ pc = "idle")
          /\ (order' # order /\ order' # <<>>) =>
                 /\ pc = "idle"
                 /\ pc' = "idle"
                 /\ order' = Append(order, item')]_vars

\* on the second page the third item is at hand after the first was handled
\* and the second, which has no link, was passed over
C13_Witness ==
    /\ page = FirstPage + 1
    /\ cpc = "process"
    /\ pc = "sleep"
    /\ order = <<1, 3>>
    /\ items[2] = NoLink
    /\ totalJournals = 1

\* C15: the count fetchAllPages returns equals the number of rows inserted
\* during the run; between journals the count and the inserts agree, and
\* while a journal is handled the insert precedes its count by one step.
C15_CountEqualsInserted ==
    /\ cpc # "process" => totalJournals = Len(db) - storedAtStart
    /\ cpc = "process" =>
           Len(db) - storedAtStart =
               IF pc = "idle" /\ result.kind = "id"
               THEN totalJournals + 1
               ELSE totalJournals

\* a run that began with one stored row returned 1: one journal was
\* inserted
C15_Witness ==
    /\ cpc = "returned"
    /\ storedAtStart = 1
    /\ totalJournals = 1
    /\ Len(db) = 2

\* C18: a catalog page is requested at most twice, the second time after
\* 1000 ms; when both requests fail the page is skipped and the crawl goes on
\* with the next page; after the last page the store is closed and the count
\* is what the run returns.
C18_PageRequestedAtMostTwice ==
    /\ [](/\ Len(requests) <= 2
          /\ Len(requests) >= 1 => requests[1] = 0
          /\ Len(requests) = 2 => requests[2] = 1000)
    /\ [][/\ (cpc = "request" /\ cpc' # "json") =>
                 /\ cpc' = IF Len(requests) = 2 THEN "delay" ELSE "retry_wait"
                 /\ UNCHANGED <<db, totalJournals, page, items>>
          /\ cpc = "retry_wait" => (cpc' = "request" /\ Len(requests') = 2)
          /\ cpc = "delay" =>
                 /\ page' = page + 1
                 /\ totalJournals' = totalJournals
                 /\ IF page < FirstPage + MaxPages - 1
                    THEN cpc' = "request" /\ requests' = <<0>>
                    ELSE cpc' = "closing"
          /\ cpc = "closing" =>
                 /\ cpc' \in {"returned", "rejected"}
                 /\ totalJournals' = totalJournals]_vars

\* both requests of the first page failed, after waits of 0 and 1000 ms, and
\* the page is being skipped
C18_Witness ==
    /\ page = FirstPage
    /\ cpc = "delay"
    /\ retries = 1
    /\ requests = <<0, 1000>>
    /\ items = <<>>

\* C19: no proxy fetch is issued for a journal whose title is stored: a fetch
\* runs only for the journal at hand and its title is not stored, the first
\* fetch of a journal is issued by the step that ends its title lookup, and a
\* lookup that finds the title leaves the journal without a fetch, a count
\* or a change of the key index.
C19_StoredTitleNotFetched ==
    /\ [](Fetching =>
              /\ cpc = "process"
              /\ journalTitle = extractJournalTitleFromUrl(items[item])
              /\ ~TitleStored(journalTitle))
    /\ [][/\ (~Fetching /\ Fetching' /\ phase' = "aims") => cpc = "lookup"
          /\ (cpc = "lookup" /\ TitleStored(extractJournalTitleFromUrl(items[item]))) =>
                 /\ cpc' # "process"
                 /\ pc' = "idle"
                 /\ attempts' = <<>>
                 /\ currentApiKeyIndex' = currentApiKeyIndex
                 /\ db' = db
                 /\ totalJournals' = totalJournals]_vars

\* the lookup finds a title this run stored on its first page, after the key
\* index was rotated
C19_Witness ==
    /\ cpc = "lookup"
    /\ page = FirstPage + 1
    /\ storedAtStart = 0
    /\ TitleStored(extractJournalTitleFromUrl(items[item]))
    /\ currentApiKeyIndex = 1

====
